---- MODULE Spec2Model ----
(***************************************************************************)
(* One request through generate_answer (src/src/api/core/rag.py): query    *)
(* expansion, concurrent retrieval, deduplication, VSME-priority ranking,  *)
(* synthesis and link classification (src/src/api/core/link_detector.py).  *)
(* Strings that the code parses are sequences of one-character strings.    *)
(***************************************************************************)
EXTENDS Integers, Sequences, FiniteSets, TLC

\* ------------------------------------------------------------------ bounds
\* top_k is drawn from 0..MaxTopK
MaxTopK == 3
\* longest retrieved pool of the ranking specification
MaxPool == 3
\* longest string drawn for parse_onace_codes
MaxRaw == 3
\* longest document list drawn for get_relevant_documents
MaxDocs == 2
MaxReply == 4

\* ------------------------------------------------------- program constants
\* expand_query(query, num_expansions = 4)
num_expansions == 4

Min(a, b) == IF a <= b THEN a ELSE b
Max(a, b) == IF a >= b THEN a ELSE b

\* ------------------------------------------------------- Python primitives
Whitespace == {" ", "\n", "\t"}
Digits == {"0", "1", "2", "3", "4", "5", "6", "7", "8", "9"}

\* s[:n], n of either sign
PySlice(s, n) ==
    IF n >= 0 THEN SubSeq(s, 1, Min(n, Len(s)))
              ELSE SubSeq(s, 1, Max(Len(s) + n, 0))

\* s[1:-1]
PyInner(s) == SubSeq(s, 2, Len(s) - 1)

RECURSIVE lstrip(_)
lstrip(s) == IF s # <<>> /\ Head(s) \in Whitespace THEN lstrip(Tail(s)) ELSE s

RECURSIVE rstrip(_)
rstrip(s) ==
    IF s # <<>> /\ s[Len(s)] \in Whitespace
    THEN rstrip(SubSeq(s, 1, Len(s) - 1))
    ELSE s

\* str.strip()
strip(s) == rstrip(lstrip(s))

Contains(s, c) == \E i \in 1..Len(s) : s[i] = c

FirstIndex(s, c) == CHOOSE i \in 1..Len(s) : s[i] = c /\ \A j \in 1..(i - 1) : s[j] # c

\* str.split(sep)
RECURSIVE split(_, _)
split(s, sep) ==
    IF ~Contains(s, sep) THEN <<s>>
    ELSE LET i == FirstIndex(s, sep)
         IN  <<SubSeq(s, 1, i - 1)>> \o split(SubSeq(s, i + 1, Len(s)), sep)

\* str.split(sep, 1)
split1(s, sep) ==
    IF ~Contains(s, sep) THEN <<s>>
    ELSE LET i == FirstIndex(s, sep)
         IN  <<SubSeq(s, 1, i - 1), SubSeq(s, i + 1, Len(s))>>

startswith(s, c) == s # <<>> /\ s[1] = c
endswith(s, c) == s # <<>> /\ s[Len(s)] = c

LowerChar(c) ==
    CASE c = "W" -> "w"
      [] c = "A" -> "a"
      [] c = "T" -> "t"
      [] c = "E" -> "e"
      [] c = "R" -> "r"
      [] c = "N" -> "n"
      [] c = "O" -> "o"
      [] OTHER -> c

\* str.lower()
lower(s) == [i \in 1..Len(s) |-> LowerChar(s[i])]

RECURSIVE Flatten(_)
Flatten(ss) == IF ss = <<>> THEN <<>> ELSE Head(ss) \o Flatten(Tail(ss))

\* ------------------------------------------------------------ expand_query
\* one line of the model output: the queries it appends (none or one)
ParseLine(line) ==
    LET clean0 == strip(line)
        clean1 == IF clean0 # <<>> /\ clean0[1] \in Digits /\ Contains(PySlice(clean0, 3), ".")
                  THEN strip(split1(clean0, ".")[2])
                  ELSE clean0
        clean2 == IF startswith(clean1, "\"") /\ endswith(clean1, "\"")
                  THEN PyInner(clean1)
                  ELSE clean1
        clean3 == IF startswith(clean2, "'") /\ endswith(clean2, "'")
                  THEN PyInner(clean2)
                  ELSE clean2
    IN  IF clean0 = <<>> THEN <<>> ELSE <<clean3>>

\* an expansion that returns every parsed line
ExpandQueryNoLimit(content, n) ==
    LET expanded_text == strip(content)
        lines == split(expanded_text, "\n")
    IN  Flatten([i \in 1..Len(lines) |-> ParseLine(lines[i])])

\* the list expand_query returns for a model output `content`
expand_query(content, n) ==
    LET expanded_text == strip(content)
        lines == split(expanded_text, "\n")
        expanded == Flatten([i \in 1..Len(lines) |-> ParseLine(lines[i])])
    IN  PySlice(expanded, n)

\* model outputs of the expansion call
ExpansionReplies ==
    { <<"a">>,
      <<"1", ".", " ", "a", "\n", "2", ")", " ", "b">>,
      <<"1", ".", " ", "a", "\n", " ", "\n", "2", ".", " ", "b", "\n",
        "3", ".", " ", "c", "\n", "4", ".", " ", "d", "\n", "5", ".", " ", "e">>,
      <<"1", ".">>,
      <<"\"", "a", "\"", "\n", "'", "b", "'">>,
      <<" ", "\n">> }

\* the user's question
query == <<"q">>

\* ------------------------------------------------------------------ chunks
\* a chunk of the vector store: metadata is <<>> when the chunk has none,
\* filename is <<>> when the metadata has none
Meta(filename, is_vsme) == <<[filename |-> filename, is_vsme |-> is_vsme]>>

Corpus ==
    { [chunk_id |-> "c1", text |-> "ta", metadata |-> Meta(<<"vsme.pdf">>, TRUE)],
      [chunk_id |-> "c2", text |-> "ta", metadata |-> Meta(<<"csrd.pdf">>, FALSE)],
      [chunk_id |-> "c3", text |-> "tb", metadata |-> Meta(<<"vsme2.pdf">>, TRUE)],
      [chunk_id |-> "c4", text |-> "tc", metadata |-> Meta(<<>>, FALSE)],
      [chunk_id |-> "c5", text |-> "td", metadata |-> <<>>] }

\* distances the search may attach to a chunk (lower = more relevant)
Scores == {1, 2, 3}

\* a retrieved chunk: a corpus chunk with the score of this search
Hit(c, s) == [chunk_id |-> c.chunk_id, text |-> c.text, score |-> s, metadata |-> c.metadata]

Hits == {Hit(c, s) : c \in Corpus, s \in Scores}

ById(id) == CHOOSE c \in Corpus : c.chunk_id = id

\* result lists of one search_all_documents call
RetrievalResults ==
    { <<>>,
      <<Hit(ById("c1"), 2), Hit(ById("c4"), 1)>>,
      <<Hit(ById("c2"), 1), Hit(ById("c3"), 2), Hit(ById("c4"), 2)>>,
      <<Hit(ById("c5"), 1)>> }

\* sequences over S of length at most n
SeqsUpTo(S, n) == UNION {[1..k -> S] : k \in 0..n}

\* chunk.get("metadata", {}).get("is_vsme", False)
is_vsme(chunk) == chunk.metadata # <<>> /\ chunk.metadata[1].is_vsme
not_vsme(chunk) == ~is_vsme(chunk)

\* chunk.get("metadata", {}).get("filename", "Unknown source")
SourceOf(chunk) ==
    IF chunk.metadata # <<>> /\ chunk.metadata[1].filename # <<>>
    THEN chunk.metadata[1].filename[1]
    ELSE "Unknown source"

\* ---------------------------------------------------- sort, dedup and rank
\* an unstable sort: c goes before the elements of equal score
InsertByScoreUnstable(c, sorted) ==
    LET k == Cardinality({i \in 1..Len(sorted) : sorted[i].score < c.score})
    IN  SubSeq(sorted, 1, k) \o <<c>> \o SubSeq(sorted, k + 1, Len(sorted))

\* list.sort(key = score) is stable: c goes behind every element whose score
\* is not greater
InsertByScore(c, sorted) ==
    LET k == Cardinality({i \in 1..Len(sorted) : sorted[i].score <= c.score})
    IN  SubSeq(sorted, 1, k) \o <<c>> \o SubSeq(sorted, k + 1, Len(sorted))

RECURSIVE SortByScore(_)
SortByScore(chunks) ==
    IF chunks = <<>> THEN <<>>
    ELSE InsertByScore(chunks[Len(chunks)], SortByScore(SubSeq(chunks, 1, Len(chunks) - 1)))

\* the key of the unused deduplicate_chunks (lines 87-95): chunk_id instead of text
DictPutById(unique, chunk) ==
    IF \E i \in 1..Len(unique) : unique[i].chunk_id = chunk.chunk_id
    THEN unique
    ELSE Append(unique, chunk)

\* the assignment without its "not in" test: a later chunk replaces the stored one
DictPutOverwrite(unique, chunk) ==
    IF \E i \in 1..Len(unique) : unique[i].text = chunk.text
    THEN LET i == CHOOSE i \in 1..Len(unique) : unique[i].text = chunk.text
         IN  [unique EXCEPT ![i] = chunk]
    ELSE Append(unique, chunk)

\* a list that takes every chunk, whatever its text
DictPutAlways(unique, chunk) == Append(unique, chunk)

\* unique_chunks_dict[text_key] = chunk unless text_key is already a key
DictPut(unique, chunk) ==
    IF \E i \in 1..Len(unique) : unique[i].text = chunk.text
    THEN unique
    ELSE Append(unique, chunk)

RECURSIVE UniqueByText(_, _)
UniqueByText(chunks, unique) ==
    IF chunks = <<>> THEN unique
    ELSE UniqueByText(Tail(chunks), DictPut(unique, Head(chunks)))

\* lines 130-137: sort by score, then keep the first chunk of every text
Dedup(chunks) == UniqueByText(SortByScore(chunks), <<>>)

vsme_limit(k) == Max(1, k \div 2)

\* lines 141-150
RankChunks(unique, k) ==
    LET vsme_chunks == SortByScore(SelectSeq(unique, is_vsme))
        other_chunks == SortByScore(SelectSeq(unique, not_vsme))
    IN  PySlice(vsme_chunks, vsme_limit(k)) \o PySlice(other_chunks, k - vsme_limit(k))

\* format_context raises AttributeError on a chunk without metadata:
\* chunk.get('metadata', 'Unknown source') is then a str, which has no .get
FormatContextRaises(chunks) == \E i \in 1..Len(chunks) : chunks[i].metadata = <<>>

FormatSource(chunk) ==
    IF chunk.metadata[1].filename # <<>> THEN chunk.metadata[1].filename[1]
    ELSE "Unknown source"

\* the context string, as its list of "[Chunk i - Source: s]\ntext\n" blocks
format_context(chunks) ==
    [i \in 1..Len(chunks) |->
        [chunk |-> i, source |-> FormatSource(chunks[i]), text |-> chunks[i].text]]

\* --------------------------------------------------------- link detection
Water == <<"w", "a", "t", "e", "r">>
Industry == <<"i", "n", "d", "u", "s", "t", "r", "y">>
Nature == <<"n", "a", "t", "u", "r", "e">>

\* LinkDetector.manager_links
manager_links ==
    (Water :> "https://maps.wisa.bmluk.gv.at/emreg")
    @@ (Industry :> "https://industry.eea.europa.eu/explore/explore-data-map/map")
    @@ (Nature :> "https://natura2000.eea.europa.eu")

\* model outputs of the classification call
ClassificationReplies ==
    { Water, Industry, Nature,
      <<"n", "o", "n", "e">>,
      <<"W", "a", "t", "e", "r">>,
      <<" ", "n", "a", "t", "u", "r", "e", "\n">>,
      <<"w", "a", "t", "e", "r", ".">> }

\* a classification that validates the model output as it came, untrimmed and in its case
ClassifyExactWord(content) ==
    IF content \in {Water, Industry, Nature} THEN <<content>> ELSE <<>>

\* _classify_query_intent on a model output: <<topic>>, or <<>> for None
classify_query_intent(content) ==
    LET classification == lower(strip(content))
    IN  IF classification \in {Water, Industry, Nature} THEN <<classification>> ELSE <<>>

\* a link lookup that hands back the whole table once a topic is found
GetRelevantLinksWholeTable(topic) ==
    IF topic # <<>> /\ topic[1] \in DOMAIN manager_links
    THEN <<manager_links[Water], manager_links[Industry], manager_links[Nature]>>
    ELSE <<>>

\* get_relevant_links, given what _classify_query_intent returned
get_relevant_links(topic) ==
    IF topic # <<>> /\ topic[1] \in DOMAIN manager_links
    THEN <<manager_links[topic[1]]>>
    ELSE <<>>

\* ------------------------------------------------------------------- state
VARIABLES
    top_k,              \* the caller's top_k
    pc,                 \* the stage generate_answer is in
    expansion,          \* the expansion call: "pending", "ok", "failed"
    expanded_queries,   \* what expand_query returned
    search_queries,     \* [query] + expanded_queries
    search_tasks,       \* one search_all_documents call per search query
    all_chunks,         \* the flattened pool (sorted in place by line 130)
    unique_chunks,      \* the deduplicated pool
    top_unique_chunks,  \* the ranked evidence
    context,            \* format_context(top_unique_chunks)
    synthesis,          \* the synthesis call: "idle", "pending", "ok", "failed"
    classification,     \* the classification call, likewise
    relevant_links,     \* what get_relevant_links returned
    e,                  \* the exception caught at line 236, or "none"
    result,             \* <<>> until generate_answer returns, then <<dict>>
    calls,              \* external calls issued so far, per kind
    classification_content, \* <<text>> once the classification call has returned one
    out_of_order,       \* whether a search task has completed before an earlier one
    expansion_content,  \* <<text>> once the expansion call has returned one
    ONACE_CATEGORIES,   \* the codes (keys) of OnaceManager.ONACE_CATEGORIES
    onace_call          \* the OnaceManager call the caller holds the result of: op, args, ret

\* the state of one generate_answer request
ragVars == <<top_k, pc, expansion, expanded_queries, search_queries, search_tasks,
             all_chunks, unique_chunks, top_unique_chunks, context, synthesis,
             classification, relevant_links, e, result, calls, classification_content,
             out_of_order, expansion_content>>

\* the state of OnaceManager and of its caller
onaceVars == <<ONACE_CATEGORIES, onace_call>>

vars == <<ragVars, onaceVars>>

\* ------------------------------------------------------------ OnaceManager
\* the keys of ONACE_CATEGORIES (onace_categories.py 20-43)
CatalogCodes ==
    {"0", "A", "B", "C", "D", "E", "F", "G", "H", "I", "J", "K", "L", "M", "N", "O",
     "P", "Q", "R", "S", "T", "U"}

Nan == <<"n", "a", "n">>

\* a stripped token as a key of ONACE_CATEGORIES: the codes are one character long
TokenCodes(token) ==
    IF Len(token) = 1 /\ token[1] \in ONACE_CATEGORIES THEN {token[1]} ELSE {}

\* parse_onace_codes that returns the empty set when no token is a code
ParseNoDefault(onace_string) ==
    IF onace_string = <<>> \/ onace_string = Nan THEN {"0"}
    ELSE LET tokens == split(onace_string, ",")
         IN  UNION {TokenCodes(strip(tokens[i])) : i \in 1..Len(tokens)}

\* OnaceManager.parse_onace_codes
parse_onace_codes(onace_string) ==
    IF onace_string = <<>> \/ onace_string = Nan THEN {"0"}
    ELSE LET tokens == split(onace_string, ",")
             codes == UNION {TokenCodes(strip(tokens[i])) : i \in 1..Len(tokens)}
         IN  IF codes = {} THEN {"0"} ELSE codes

\* a relevance test that also lets a general user ("0") see every document
IsRelevantSymmetric(document_onace_codes, user_onace_code) ==
    \/ "0" \in document_onace_codes
    \/ user_onace_code = "0"
    \/ user_onace_code \in document_onace_codes

\* OnaceManager.is_document_relevant
is_document_relevant(document_onace_codes, user_onace_code) ==
    IF "0" \in document_onace_codes THEN TRUE
    ELSE user_onace_code \in document_onace_codes

\* doc.get('onace_codes', '0'): onace_codes is <<>> when the document has no such field
DocCodes(doc) == IF doc.onace_codes = <<>> THEN <<"0">> ELSE doc.onace_codes[1]

DocRelevant(doc, user_onace_code) ==
    is_document_relevant(parse_onace_codes(DocCodes(doc)), user_onace_code)

\* a filter that drops the documents without an onace_codes field
GetRelevantDocumentsNoDefault(documents, user_onace_code) ==
    SelectSeq(documents,
              LAMBDA doc : doc.onace_codes # <<>> /\ DocRelevant(doc, user_onace_code))

\* OnaceManager.get_relevant_documents
get_relevant_documents(documents, user_onace_code) ==
    SelectSeq(documents, LAMBDA doc : DocRelevant(doc, user_onace_code))

\* OnaceManager.get_category: <<code>> for the category of that code, <<>> for None
get_category(code) == IF code \in ONACE_CATEGORIES THEN <<code>> ELSE <<>>

\* get_all_categories handing out the class attribute itself
GetAllCategoriesNoCopy == [alias |-> TRUE, keys |-> ONACE_CATEGORIES]

\* OnaceManager.get_all_categories: a new dict with the keys of the catalog
get_all_categories == [alias |-> FALSE, keys |-> ONACE_CATEGORIES]

\* OnaceManager.get_category_names, as the keys of the dict it returns
get_category_names(codes) == {code \in codes : code \in ONACE_CATEGORIES}

\* keys a caller adds to or removes from a mapping it was handed
EditedCodes == {"A", "Z"}

\* characters of the strings handed to parse_onace_codes
OnaceChars == {"0", "A", "C", "z", ",", " "}

RawStrings ==
    SeqsUpTo(OnaceChars, MaxRaw)
    \cup {Nan, <<"A", ",", " ", "C">>, <<" ", "n", "a", "n">>, <<"A", ",", "n", "a", "n">>}

\* code sets and user codes handed to is_document_relevant
DocumentCodeSets == SUBSET {"0", "A", "C", "U"}
UserCodes == CatalogCodes \cup {"Z"}

\* documents handed to get_relevant_documents
Documents ==
    { [name |-> "d1", onace_codes |-> <<>>],
      [name |-> "d2", onace_codes |-> << <<"C">> >>],
      [name |-> "d3", onace_codes |-> << <<"A", ",", " ", "C">> >>],
      [name |-> "d4", onace_codes |-> << <<"z", "z", "z">> >>],
      [name |-> "d5", onace_codes |-> << <<"0">> >>],
      [name |-> "d6", onace_codes |-> << <<"A">> >>] }

NoCall == [op |-> "none", args |-> <<>>, ret |-> <<>>]

Apology == "I apologize, but I encountered an error while processing your request."

\* a failure dict that hands back what the request had produced so far
FailureResultKeepsEvidence ==
    [answer |-> Apology, chunks |-> top_unique_chunks, expanded_queries |-> expanded_queries,
     sources |-> <<>>, relevant_links |-> <<>>, success |-> FALSE]

\* lines 238-245
FailureResult ==
    [answer |-> Apology, chunks |-> <<>>, expanded_queries |-> <<>>,
     sources |-> <<>>, relevant_links |-> <<>>, success |-> FALSE]

\* a success dict whose sources are those of the whole deduplicated pool
SuccessResultPoolSources(links) ==
    [answer |-> "answer", chunks |-> top_unique_chunks,
     expanded_queries |-> expanded_queries,
     sources |-> [i \in 1..Len(unique_chunks) |-> SourceOf(unique_chunks[i])],
     relevant_links |-> links, success |-> TRUE]

\* lines 227-234
SuccessResult(links) ==
    [answer |-> "answer", chunks |-> top_unique_chunks,
     expanded_queries |-> expanded_queries,
     sources |-> [i \in 1..Len(top_unique_chunks) |-> SourceOf(top_unique_chunks[i])],
     relevant_links |-> links, success |-> TRUE]

TopKs == 0..MaxTopK

Init ==
    /\ top_k \in TopKs
    /\ pc = "expanding"
    /\ expansion = "pending"
    /\ expanded_queries = <<>>
    /\ search_queries = <<>>
    /\ search_tasks = <<>>
    /\ all_chunks = <<>>
    /\ unique_chunks = <<>>
    /\ top_unique_chunks = <<>>
    /\ context = <<>>
    /\ synthesis = "idle"
    /\ classification = "idle"
    /\ relevant_links = <<>>
    /\ e = "none"
    /\ result = <<>>
    /\ calls = [expansion |-> 1, retrieval |-> 0, synthesis |-> 0, classification |-> 0]
    /\ classification_content = <<>>
    /\ out_of_order = FALSE
    /\ expansion_content = <<>>
    /\ ONACE_CATEGORIES = CatalogCodes
    /\ onace_call = NoCall

\* the handler re-raising instead of returning the fixed dict
HandleReraises(exception) ==
    /\ e' = exception
    /\ pc' = "failed"
    /\ result' = <<[raised |-> exception]>>

\* lines 236-245: the handler of generate_answer
Handle(exception) ==
    /\ e' = exception
    /\ pc' = "failed"
    /\ result' = <<FailureResult>>

\* lines 119-123: one search task per search query, all started by gather
StartRetrieval(expanded) ==
    /\ expanded_queries' = expanded
    /\ search_queries' = <<query>> \o expanded
    /\ search_tasks' = [i \in 1..(1 + Len(expanded)) |-> [status |-> "pending", chunks |-> <<>>]]
    /\ calls' = [calls EXCEPT !.retrieval = 1 + Len(expanded)]
    /\ pc' = "retrieving"
    /\ UNCHANGED <<classification_content, out_of_order, onaceVars>>
    /\ UNCHANGED <<top_k, all_chunks, unique_chunks, top_unique_chunks, context,
                   synthesis, classification, relevant_links, e, result>>

\* expand_query returns the parsed model output, the output being one of replies
ExpansionReturnsFrom(replies) ==
    /\ pc = "expanding"
    /\ \E content \in replies :
          /\ expansion' = "ok"
          /\ expansion_content' = <<content>>
          /\ StartRetrieval(expand_query(content, num_expansions))

ExpansionReturns == ExpansionReturnsFrom(ExpansionReplies)

\* expand_query without its try/except: the exception reaches line 236
ExpansionFailsPropagates ==
    /\ pc = "expanding"
    /\ expansion' = "failed"
    /\ Handle("expansion")
    /\ UNCHANGED <<classification_content, out_of_order, expansion_content, onaceVars>>
    /\ UNCHANGED <<top_k, expanded_queries, search_queries, search_tasks, all_chunks,
                   unique_chunks, top_unique_chunks, context, synthesis, classification,
                   relevant_links, calls>>

\* an expansion failure answered by issuing the expansion call once more
ExpansionFailsRetries ==
    /\ pc = "expanding"
    /\ calls.expansion < 2
    /\ calls' = [calls EXCEPT !.expansion = @ + 1]
    /\ UNCHANGED <<classification_content, out_of_order, expansion_content, onaceVars>>
    /\ UNCHANGED <<top_k, pc, expansion, expanded_queries, search_queries, search_tasks,
                   all_chunks, unique_chunks, top_unique_chunks, context, synthesis,
                   classification, relevant_links, e, result>>

\* lines 83-85: the expansion call raises, expand_query returns []
ExpansionFails ==
    /\ pc = "expanding"
    /\ expansion' = "failed"
    /\ expansion_content' = <<>>
    /\ StartRetrieval(<<>>)

\* task i completes while a task started before it is still pending
Overtakes(i) == \E j \in 1..(i - 1) : search_tasks[j].status = "pending"

\* search task i returns its result list
RetrievalReturns ==
    \E i \in DOMAIN search_tasks, chunks \in RetrievalResults :
        /\ search_tasks[i].status = "pending"
        /\ search_tasks' = [search_tasks EXCEPT ![i] = [status |-> "ok", chunks |-> chunks]]
        /\ out_of_order' = (out_of_order \/ Overtakes(i))
        /\ UNCHANGED <<classification_content, expansion_content, onaceVars>>
        /\ UNCHANGED <<top_k, pc, expansion, expanded_queries, search_queries, all_chunks,
                       unique_chunks, top_unique_chunks, context, synthesis, classification,
                       relevant_links, e, result, calls>>

\* search task i raises
RetrievalFails ==
    \E i \in DOMAIN search_tasks :
        /\ search_tasks[i].status = "pending"
        /\ search_tasks' = [search_tasks EXCEPT ![i] = [status |-> "failed", chunks |-> <<>>]]
        /\ out_of_order' = (out_of_order \/ Overtakes(i))
        /\ UNCHANGED <<classification_content, expansion_content, onaceVars>>
        /\ UNCHANGED <<top_k, pc, expansion, expanded_queries, search_queries, all_chunks,
                       unique_chunks, top_unique_chunks, context, synthesis, classification,
                       relevant_links, e, result, calls>>

\* a wait that hands over as soon as one task has a result list
GatherReadyFirstCompleted == \E i \in DOMAIN search_tasks : search_tasks[i].status = "ok"

\* asyncio.gather(*search_tasks) hands over the result lists once every task has one
GatherReady == \A i \in DOMAIN search_tasks : search_tasks[i].status = "ok"

\* a wait that never hands a task's exception to the awaiting coroutine
GatherNeverRaises == FALSE

\* asyncio.gather without return_exceptions propagates the first exception to the
\* awaiting coroutine at once; the other tasks are not cancelled and run on
GatherRaised == \E i \in DOMAIN search_tasks : search_tasks[i].status = "failed"

\* a merge that takes the lists in another order once a task has overtaken another
FlattenResultsAsCompleted ==
    IF out_of_order
    THEN Flatten([i \in DOMAIN search_tasks |-> search_tasks[Len(search_tasks) + 1 - i].chunks])
    ELSE Flatten([i \in DOMAIN search_tasks |-> search_tasks[i].chunks])

\* line 126
FlattenResults == Flatten([i \in DOMAIN search_tasks |-> search_tasks[i].chunks])

\* lines 123-126
GatherReturns ==
    /\ pc = "retrieving"
    /\ GatherReady
    /\ all_chunks' = FlattenResults
    /\ pc' = "deduplicating"
    /\ UNCHANGED <<classification_content, out_of_order, expansion_content, onaceVars>>
    /\ UNCHANGED <<top_k, expansion, expanded_queries, search_queries, search_tasks,
                   unique_chunks, top_unique_chunks, context, synthesis, classification,
                   relevant_links, e, result, calls>>

\* line 123 raises into the handler of line 236
GatherRaises ==
    /\ pc = "retrieving"
    /\ GatherRaised
    /\ Handle("retrieval")
    /\ UNCHANGED <<classification_content, out_of_order, expansion_content, onaceVars>>
    /\ UNCHANGED <<top_k, expansion, expanded_queries, search_queries, search_tasks,
                   all_chunks, unique_chunks, top_unique_chunks, context, synthesis,
                   classification, relevant_links, calls>>

\* lines 130-137
Deduplicate ==
    /\ pc = "deduplicating"
    /\ all_chunks' = SortByScore(all_chunks)
    /\ unique_chunks' = Dedup(all_chunks)
    /\ pc' = "ranking"
    /\ UNCHANGED <<classification_content, out_of_order, expansion_content, onaceVars>>
    /\ UNCHANGED <<top_k, expansion, expanded_queries, search_queries, search_tasks,
                   top_unique_chunks, context, synthesis, classification,
                   relevant_links, e, result, calls>>

\* lines 141-218: rank, format the context, issue the synthesis call
Rank ==
    /\ pc = "ranking"
    /\ top_unique_chunks' = RankChunks(unique_chunks, top_k)
    /\ IF FormatContextRaises(top_unique_chunks')
       THEN /\ Handle("format_context")
            /\ UNCHANGED <<context, synthesis, calls>>
       ELSE /\ context' = format_context(top_unique_chunks')
            /\ synthesis' = "pending"
            /\ calls' = [calls EXCEPT !.synthesis = @ + 1]
            /\ pc' = "synthesizing"
            /\ UNCHANGED <<e, result>>
    /\ UNCHANGED <<classification_content, out_of_order, expansion_content, onaceVars>>
    /\ UNCHANGED <<top_k, expansion, expanded_queries, search_queries, search_tasks,
                   all_chunks, unique_chunks, classification, relevant_links>>

\* lines 218-225: the synthesis call returns, the classification call is issued
SynthesisReturns ==
    /\ pc = "synthesizing"
    /\ synthesis' = "ok"
    /\ classification' = "pending"
    /\ calls' = [calls EXCEPT !.classification = @ + 1]
    /\ pc' = "classifying"
    /\ UNCHANGED <<classification_content, out_of_order, expansion_content, onaceVars>>
    /\ UNCHANGED <<top_k, expansion, expanded_queries, search_queries, search_tasks,
                   all_chunks, unique_chunks, top_unique_chunks, context,
                   relevant_links, e, result>>

\* a synthesis failure after which the classification call is issued all the same
SynthesisFailsContinues ==
    /\ pc = "synthesizing"
    /\ synthesis' = "failed"
    /\ classification' = "pending"
    /\ calls' = [calls EXCEPT !.classification = @ + 1]
    /\ pc' = "classifying"
    /\ UNCHANGED <<classification_content, out_of_order, expansion_content, onaceVars>>
    /\ UNCHANGED <<top_k, expansion, expanded_queries, search_queries, search_tasks,
                   all_chunks, unique_chunks, top_unique_chunks, context,
                   relevant_links, e, result>>

\* line 218 raises into the handler of line 236
SynthesisFails ==
    /\ pc = "synthesizing"
    /\ synthesis' = "failed"
    /\ Handle("synthesis")
    /\ UNCHANGED <<classification_content, out_of_order, expansion_content, onaceVars>>
    /\ UNCHANGED <<top_k, expansion, expanded_queries, search_queries, search_tasks,
                   all_chunks, unique_chunks, top_unique_chunks, context,
                   classification, relevant_links, calls>>

\* lines 225-234, with what get_relevant_links returned
Return(links) ==
    /\ relevant_links' = links
    /\ result' = <<SuccessResult(links)>>
    /\ pc' = "done"
    /\ UNCHANGED <<out_of_order, expansion_content, onaceVars>>
    /\ UNCHANGED <<top_k, expansion, expanded_queries, search_queries, search_tasks,
                   all_chunks, unique_chunks, top_unique_chunks, context, synthesis,
                   e, calls>>

\* link_detector.py 125-141, 47-50: the classification call returns a text
ClassificationReturns ==
    /\ pc = "classifying"
    /\ \E content \in ClassificationReplies :
          /\ classification' = "ok"
          /\ classification_content' = <<content>>
          /\ Return(get_relevant_links(classify_query_intent(content)))

\* a classification failure that reaches the handler of generate_answer
ClassificationFailsPropagates ==
    /\ pc = "classifying"
    /\ classification' = "failed"
    /\ classification_content' = <<>>
    /\ Handle("classification")
    /\ UNCHANGED <<out_of_order, expansion_content, onaceVars>>
    /\ UNCHANGED <<top_k, expansion, expanded_queries, search_queries, search_tasks,
                   all_chunks, unique_chunks, top_unique_chunks, context, synthesis,
                   relevant_links, calls>>

\* link_detector.py 143-145: the classification call raises, the topic is None
ClassificationFails ==
    /\ pc = "classifying"
    /\ classification' = "failed"
    /\ classification_content' = <<>>
    /\ Return(get_relevant_links(<<>>))

Next ==
    \/ ExpansionReturns
    \/ ExpansionFails
    \/ RetrievalReturns
    \/ RetrievalFails
    \/ GatherReturns
    \/ GatherRaises
    \/ Deduplicate
    \/ Rank
    \/ SynthesisReturns
    \/ SynthesisFails
    \/ ClassificationReturns
    \/ ClassificationFails

Spec == Init /\ [][Next]_vars

\* ------------------------------------------- deduplication and ranking alone
\* every pool a single search can hand to line 126, for every top_k: the state
\* after a failed expansion and one search returning `pool`
\* lines 126-218 have no await: generate_answer in Deduplicating or Ranking runs on to
\* the next stage (the step is Deduplicate or Rank, the only steps that leave them)
StageAdvances ==
    /\ pc \in {"deduplicating", "ranking"}
    /\ pc' \in {"ranking", "synthesizing", "failed"}

\* every call that is awaited eventually returns or fails, and generate_answer, once
\* it can run, runs
Fairness ==
    /\ WF_vars(ExpansionReturns \/ ExpansionFails)
    /\ WF_vars(RetrievalReturns \/ RetrievalFails)
    /\ WF_vars(GatherReturns \/ GatherRaises)
    /\ WF_pc(StageAdvances)
    /\ WF_vars(SynthesisReturns \/ SynthesisFails)
    /\ WF_vars(ClassificationReturns \/ ClassificationFails)

SpecFair == Spec /\ Fairness

Pools == SeqsUpTo(Hits, MaxPool)

RankInit ==
    /\ top_k \in TopKs
    /\ pc = "deduplicating"
    /\ expansion = "failed"
    /\ expanded_queries = <<>>
    /\ search_queries = <<query>>
    /\ \E pool \in Pools :
          /\ search_tasks = <<[status |-> "ok", chunks |-> pool]>>
          /\ all_chunks = pool
    /\ unique_chunks = <<>>
    /\ top_unique_chunks = <<>>
    /\ context = <<>>
    /\ synthesis = "idle"
    /\ classification = "idle"
    /\ relevant_links = <<>>
    /\ e = "none"
    /\ result = <<>>
    /\ calls = [expansion |-> 1, retrieval |-> 1, synthesis |-> 0, classification |-> 0]
    /\ classification_content = <<>>
    /\ out_of_order = FALSE
    /\ expansion_content = <<>>
    /\ ONACE_CATEGORIES = CatalogCodes
    /\ onace_call = NoCall

RankNext == Deduplicate \/ Rank

SpecRank == RankInit /\ [][RankNext]_vars

\* ------------------------------------------------------- expand_query alone
\* the default of generate_answer's top_k
default_top_k == 3

\* characters of the model outputs handed to expand_query alone
ReplyChars == {"1", ".", ")", " ", "a", "\"", "\n"}

\* model outputs handed to expand_query alone
ExpandInputs == SeqsUpTo(ReplyChars, MaxReply) \cup ExpansionReplies

\* a request whose expansion call returns any of the short model outputs
ExpandInit == Init /\ top_k = default_top_k

ExpandNext == ExpansionReturnsFrom(ExpandInputs)

SpecExpand == ExpandInit /\ [][ExpandNext]_vars

\* ------------------------------------------------------- OnaceManager alone
\* no request is under way while the OnaceManager methods are called
OnaceInit == Init /\ top_k = default_top_k

\* a call of OnaceManager.parse_onace_codes
ParseOnaceCodes ==
    /\ onace_call = NoCall
    /\ \E onace_string \in RawStrings :
          onace_call' = [op |-> "parse_onace_codes", args |-> <<onace_string>>,
                         ret |-> parse_onace_codes(onace_string)]
    /\ UNCHANGED <<ragVars, ONACE_CATEGORIES>>

\* a call of OnaceManager.is_document_relevant
IsDocumentRelevant ==
    /\ onace_call = NoCall
    /\ \E document_onace_codes \in DocumentCodeSets, user_onace_code \in UserCodes :
          onace_call' = [op |-> "is_document_relevant",
                         args |-> <<document_onace_codes, user_onace_code>>,
                         ret |-> is_document_relevant(document_onace_codes, user_onace_code)]
    /\ UNCHANGED <<ragVars, ONACE_CATEGORIES>>

\* a call of OnaceManager.get_relevant_documents
GetRelevantDocuments ==
    /\ onace_call = NoCall
    /\ \E documents \in SeqsUpTo(Documents, MaxDocs), user_onace_code \in UserCodes :
          onace_call' = [op |-> "get_relevant_documents",
                         args |-> <<documents, user_onace_code>>,
                         ret |-> get_relevant_documents(documents, user_onace_code)]
    /\ UNCHANGED <<ragVars, ONACE_CATEGORIES>>

\* a call of OnaceManager.get_category
GetCategory ==
    /\ onace_call = NoCall
    /\ \E code \in UserCodes :
          onace_call' = [op |-> "get_category", args |-> <<code>>, ret |-> get_category(code)]
    /\ UNCHANGED <<ragVars, ONACE_CATEGORIES>>

\* a call of OnaceManager.get_all_categories
GetAllCategories ==
    /\ onace_call = NoCall
    /\ onace_call' = [op |-> "get_all_categories", args |-> <<>>, ret |-> get_all_categories]
    /\ UNCHANGED <<ragVars, ONACE_CATEGORIES>>

\* a call of OnaceManager.get_category_names
GetCategoryNames ==
    /\ onace_call = NoCall
    /\ \E codes \in DocumentCodeSets \cup {{"Z"}, {"A", "Z"}} :
          onace_call' = [op |-> "get_category_names", args |-> <<codes>>,
                         ret |-> get_category_names(codes)]
    /\ UNCHANGED <<ragVars, ONACE_CATEGORIES>>

\* the caller adds a key to, or deletes a key from, the mapping get_all_categories
\* returned; the catalog changes with it when the mapping is the catalog itself
CallerEditsMapping ==
    /\ onace_call.op = "get_all_categories"
    /\ \E code \in EditedCodes :
          LET keys == IF code \in onace_call.ret.keys
                      THEN onace_call.ret.keys \ {code}
                      ELSE onace_call.ret.keys \cup {code}
          IN  /\ onace_call' = [onace_call EXCEPT !.ret.keys = keys]
              /\ ONACE_CATEGORIES' = IF onace_call.ret.alias THEN keys ELSE ONACE_CATEGORIES
    /\ UNCHANGED ragVars

\* the caller has used the returned value and is ready for its next call
OnaceCallDone ==
    /\ onace_call # NoCall
    /\ onace_call' = NoCall
    /\ UNCHANGED <<ragVars, ONACE_CATEGORIES>>

OnaceNext ==
    \/ ParseOnaceCodes
    \/ IsDocumentRelevant
    \/ GetRelevantDocuments
    \/ GetCategory
    \/ GetAllCategories
    \/ GetCategoryNames
    \/ CallerEditsMapping
    \/ OnaceCallDone

SpecOnace == OnaceInit /\ [][OnaceNext]_vars

\* ------------------------------------------------------------------ claims
ResultFields == {"answer", "chunks", "expanded_queries", "sources", "relevant_links", "success"}

Returned == result # <<>>

SomePending == \E i \in DOMAIN search_tasks : search_tasks[i].status = "pending"

\* generate_answer is running a synchronous stage or awaiting a call it has issued
Running ==
    \/ pc = "expanding" /\ expansion = "pending"
    \/ pc = "retrieving" /\ search_tasks # <<>>
    \/ pc \in {"deduplicating", "ranking"}
    \/ pc = "synthesizing" /\ synthesis = "pending"
    \/ pc = "classifying" /\ classification = "pending"

\* C1: whatever external calls succeed or fail, generate_answer ends by returning a
\* dict with exactly the six fields and a boolean success; it has returned exactly
\* when it is in Done or Failed, and until then it is running or awaiting a call.
C1_AlwaysWellFormedResult ==
    /\ Returned <=> pc \in {"done", "failed"}
    /\ Returned =>
          /\ DOMAIN result[1] = ResultFields
          /\ result[1].success \in BOOLEAN
          /\ result[1].success <=> pc = "done"
    /\ ~Returned => Running

\* a request that returned after its expansion call and its classification call failed
C1_Witness ==
    /\ Returned
    /\ expansion = "failed"
    /\ classification = "failed"

\* C2: after a failed synthesis call the result is exactly the fixed failure dict,
\* whatever expansion and retrieval produced; and every result with success = false
\* has empty chunks, sources and relevant_links.
C2_SynthesisFailureResult ==
    /\ synthesis = "failed" =>
          result = <<[answer |-> Apology, chunks |-> <<>>, expanded_queries |-> <<>>,
                      sources |-> <<>>, relevant_links |-> <<>>, success |-> FALSE]>>
    /\ (Returned /\ ~result[1].success) =>
          /\ result[1].chunks = <<>>
          /\ result[1].sources = <<>>
          /\ result[1].relevant_links = <<>>

\* the synthesis call failed after expansion and ranking had produced something
C2_Witness ==
    /\ synthesis = "failed"
    /\ expanded_queries # <<>>
    /\ top_unique_chunks # <<>>

\* C3: after a failed expansion call expand_query has returned [], exactly one
\* retrieval call was issued, for the original query, and a Failed result is always
\* explained by a later failure (a retrieval, the context, the synthesis call).
C3_ExpansionFailureRecoverable ==
    expansion = "failed" =>
        /\ pc # "expanding"
        /\ expanded_queries = <<>>
        /\ search_queries = <<query>>
        /\ Len(search_tasks) = 1
        /\ calls.retrieval = 1
        /\ pc = "failed" =>
              \/ search_tasks[1].status = "failed"
              \/ synthesis = "failed"
              \/ FormatContextRaises(top_unique_chunks)

\* the expansion call failed and the request finished with success = true
C3_Witness ==
    /\ expansion = "failed"
    /\ pc = "done"
    /\ result[1].success
    /\ result[1].chunks # <<>>

\* C4: when every retrieval call has ended, one of them failed and another one
\* succeeded, the request is not in Failed because of a retrieval failure.
C4_RetrievalFailureIsolated ==
    ( /\ ~SomePending
      /\ \E i \in DOMAIN search_tasks : search_tasks[i].status = "failed"
      /\ \E i \in DOMAIN search_tasks :
            search_tasks[i].status = "ok" /\ search_tasks[i].chunks # <<>> )
    => ~(pc = "failed" /\ e = "retrieval")

\* C5: while a retrieval call is pending the orchestrator is in Retrieving and has
\* returned nothing.
C5_FanInBarrier ==
    SomePending => (pc = "retrieving" /\ ~Returned)

\* the stages from the merge on
PoolMerged ==
    \/ pc \in {"deduplicating", "ranking", "synthesizing", "classifying", "done"}
    \/ pc = "failed" /\ e # "retrieval"

Count(s, x) == Cardinality({i \in 1..Len(s) : s[i] = x})

\* the number of chunks the search tasks before task i returned
RECURSIVE Offset(_)
Offset(i) == IF i <= 1 THEN 0 ELSE Offset(i - 1) + Len(search_tasks[i - 1].chunks)

\* how often chunk x occurs in the result lists of tasks 1..i
RECURSIVE Occurrences(_, _)
Occurrences(x, i) ==
    IF i = 0 THEN 0 ELSE Occurrences(x, i - 1) + Count(search_tasks[i].chunks, x)

\* C6: the pool exists only once every retrieval call has delivered its list; when
\* deduplication begins it is the concatenation, in query order, of all the lists,
\* and from then on it holds exactly the chunks of all the lists.
C6_NoPartialMerge ==
    /\ PoolMerged => \A i \in DOMAIN search_tasks : search_tasks[i].status = "ok"
    /\ ~PoolMerged => all_chunks = <<>> /\ unique_chunks = <<>>
    /\ pc = "deduplicating" =>
          /\ Len(all_chunks) = Offset(Len(search_tasks) + 1)
          /\ \A i \in DOMAIN search_tasks : \A k \in 1..Len(search_tasks[i].chunks) :
                all_chunks[Offset(i) + k] = search_tasks[i].chunks[k]
    /\ PoolMerged =>
          \A x \in Hits : Count(all_chunks, x) = Occurrences(x, Len(search_tasks))

\* deduplication has run on the lists of three searches, two of them non-empty
C6_Witness ==
    /\ pc = "ranking"
    /\ Len(search_tasks) = 3
    /\ search_tasks[1].chunks # <<>>
    /\ search_tasks[3].chunks # <<>>
    /\ search_tasks[1].chunks # search_tasks[3].chunks

\* deduplication has run
Deduped == PoolMerged /\ pc # "deduplicating"

\* ranking has run
Ranked ==
    \/ pc \in {"synthesizing", "classifying", "done"}
    \/ pc = "failed" /\ e \in {"format_context", "synthesis"}

\* the chunks the search tasks returned
RetrievedChunks ==
    UNION {{search_tasks[i].chunks[k] : k \in 1..Len(search_tasks[i].chunks)} :
              i \in DOMAIN search_tasks}

\* C7: the deduplicated list holds only retrieved chunks, exactly one per text of the
\* pool, and that one has the lowest score among the pool's chunks of that text,
\* whatever the chunk ids.
C7_DedupByText ==
    Deduped =>
        /\ \A i \in 1..Len(unique_chunks) : unique_chunks[i] \in RetrievedChunks
        /\ \A c \in RetrievedChunks :
              Cardinality({i \in 1..Len(unique_chunks) : unique_chunks[i].text = c.text}) = 1
        /\ \A i \in 1..Len(unique_chunks) : \A c \in RetrievedChunks :
              c.text = unique_chunks[i].text => unique_chunks[i].score <= c.score

\* the pool has two chunks of one text with different ids, the one with the lower
\* score behind the other, and only the lower-score one is kept
C7_Witness ==
    /\ Deduped
    /\ Len(search_tasks) = 1
    /\ \E a, b \in 1..Len(search_tasks[1].chunks) :
          LET ca == search_tasks[1].chunks[a]
              cb == search_tasks[1].chunks[b]
          IN  /\ a < b
              /\ ca.text = cb.text
              /\ ca.chunk_id # cb.chunk_id
              /\ cb.score < ca.score
              /\ \E i \in 1..Len(unique_chunks) : unique_chunks[i] = cb
              /\ \A i \in 1..Len(unique_chunks) : unique_chunks[i] # ca

\* C8: sorting and deduplicating the deduplicated list again returns the same sequence.
C8_DedupIdempotent ==
    Deduped => Dedup(unique_chunks) = unique_chunks

\* deduplication has reordered an unsorted pool and dropped a duplicate from it
C8_Witness ==
    /\ Deduped
    /\ Len(search_tasks) = 1
    /\ search_tasks[1].chunks # all_chunks
    /\ Len(unique_chunks) >= 2
    /\ Len(unique_chunks) < Len(all_chunks)

\* C9: the ranked evidence, and the chunks of a returned result, are at most top_k.
C9_AtMostTopK ==
    /\ Ranked => Len(top_unique_chunks) <= top_k
    /\ pc = "done" => Len(result[1].chunks) <= top_k

primaryQuota == Max(1, top_k \div 2)

\* C10: the ranked output is the primaryQuota lowest-score primary chunks followed by
\* the (top_k - primaryQuota) lowest-score other chunks: primary before other, each
\* group ascending by score, min(primaryQuota, available) primary chunks and
\* min(top_k - primaryQuota, available) other chunks, no better chunk left out.
C10_QuotaLayout ==
    Ranked =>
        LET out == top_unique_chunks
            P == {i \in 1..Len(out) : is_vsme(out[i])}
            O == {i \in 1..Len(out) : ~is_vsme(out[i])}
            poolP == {i \in 1..Len(unique_chunks) : is_vsme(unique_chunks[i])}
            poolO == {i \in 1..Len(unique_chunks) : ~is_vsme(unique_chunks[i])}
        IN  /\ \A i \in 1..Len(out) : \E j \in 1..Len(unique_chunks) : out[i] = unique_chunks[j]
            /\ \A i \in P : \A j \in O : i < j
            /\ \A i, j \in P : i < j => out[i].score <= out[j].score
            /\ \A i, j \in O : i < j => out[i].score <= out[j].score
            /\ Cardinality(P) = Min(primaryQuota, Cardinality(poolP))
            /\ Cardinality(O) = Min(Max(top_k - primaryQuota, 0), Cardinality(poolO))
            /\ \A i \in P : \A j \in poolP :
                  (\A k \in P : out[k] # unique_chunks[j]) => out[i].score <= unique_chunks[j].score
            /\ \A i \in O : \A j \in poolO :
                  (\A k \in O : out[k] # unique_chunks[j]) => out[i].score <= unique_chunks[j].score

\* C11: when the deduplicated pool has fewer primary chunks than primaryQuota, the
\* output holds all of them and min(|other|, top_k - primaryQuota) other chunks (none
\* when top_k - primaryQuota is negative), so with enough other chunks and
\* top_k >= primaryQuota it is shorter than top_k by exactly the deficit.
C11_NoBackfill ==
    Ranked =>
        LET out == top_unique_chunks
            outP == Cardinality({i \in 1..Len(out) : is_vsme(out[i])})
            outO == Cardinality({i \in 1..Len(out) : ~is_vsme(out[i])})
            poolP == Cardinality({i \in 1..Len(unique_chunks) : is_vsme(unique_chunks[i])})
            poolO == Cardinality({i \in 1..Len(unique_chunks) : ~is_vsme(unique_chunks[i])})
        IN  poolP < primaryQuota =>
                /\ outP = poolP
                /\ outO = Min(poolO, Max(top_k - primaryQuota, 0))
                /\ (top_k >= primaryQuota /\ poolO >= top_k - primaryQuota) =>
                      Len(out) = top_k - (primaryQuota - poolP)

\* positions a..b of raw are one comma-separated piece of it
IsPiece(raw, a, b) ==
    /\ a = 1 \/ raw[a - 1] = ","
    /\ b = Len(raw) \/ raw[b + 1] = ","
    /\ \A j \in a..b : raw[j] # ","

\* the catalog codes that are, up to surrounding whitespace, a comma-separated piece
CodeTokens(raw) ==
    {c \in CatalogCodes :
        \E a, b \in 1..Len(raw) :
            /\ IsPiece(raw, a, b)
            /\ \E k \in a..b : raw[k] = c /\ \A j \in (a..b) \ {k} : raw[j] \in Whitespace}

\* the code set the claims give a raw string
ExpectedCodes(raw) == IF CodeTokens(raw) = {} THEN {"0"} ELSE CodeTokens(raw)

\* C12: parse_onace_codes returns a non-empty subset of the catalog: the catalog codes
\* among the comma-separated, trimmed tokens, and {"0"} when there is none; "", "nan"
\* and "zzz" give {"0"}.
C12_ParseCodes ==
    onace_call.op = "parse_onace_codes" =>
        LET raw == onace_call.args[1]
            ret == onace_call.ret
        IN  /\ ret # {}
            /\ ret \subseteq CatalogCodes
            /\ ret = ExpectedCodes(raw)
            /\ raw \in {<<>>, Nan, <<"z", "z", "z">>} => ret = {"0"}

\* "A, C" was parsed to {"A", "C"}
C12_Witness ==
    /\ onace_call.op = "parse_onace_codes"
    /\ onace_call.args[1] = <<"A", ",", " ", "C">>
    /\ onace_call.ret = {"A", "C"}

\* C13: is_document_relevant is true exactly when "0" or the user code is among the
\* document codes: {"0"} is relevant to every user code, {"C"} to "C" only.
C13_Relevance ==
    onace_call.op = "is_document_relevant" =>
        LET codes == onace_call.args[1]
            user == onace_call.args[2]
            ret == onace_call.ret
        IN  /\ ret <=> ("0" \in codes \/ user \in codes)
            /\ codes = {"0"} => ret
            /\ codes = {"C"} => (ret <=> user = "C")

\* a document tagged only "C" was found irrelevant to the general user code "0"
C13_Witness ==
    /\ onace_call.op = "is_document_relevant"
    /\ onace_call.args = <<{"C"}, "0">>
    /\ onace_call.ret = FALSE

\* the codes the claims give a document
ExpectedDocCodes(doc) ==
    IF doc.onace_codes = <<>> THEN {"0"} ELSE ExpectedCodes(doc.onace_codes[1])

\* C14: get_relevant_documents returns the documents whose codes hold "0" or the user
\* code, unchanged, once each and in input order; a document without codes field or
\* without a catalog token is kept for every user code.
C14_FilterDocuments ==
    onace_call.op = "get_relevant_documents" =>
        LET docs == onace_call.args[1]
            user == onace_call.args[2]
            ret == onace_call.ret
            kept == {i \in 1..Len(docs) :
                        "0" \in ExpectedDocCodes(docs[i]) \/ user \in ExpectedDocCodes(docs[i])}
        IN  /\ Len(ret) = Cardinality(kept)
            /\ \E f \in [1..Len(ret) -> kept] :
                  /\ \A i, j \in 1..Len(ret) : i < j => f[i] < f[j]
                  /\ \A i \in 1..Len(ret) : ret[i] = docs[f[i]]
            /\ \A i \in 1..Len(docs) :
                  (docs[i].onace_codes = <<>> \/ CodeTokens(docs[i].onace_codes[1]) = {})
                      => i \in kept

\* a document without codes field was kept while a document of another industry was dropped
C14_Witness ==
    /\ onace_call.op = "get_relevant_documents"
    /\ Len(onace_call.ret) = 1
    /\ Len(onace_call.args[1]) = 2
    /\ onace_call.ret[1].onace_codes = <<>>
    /\ onace_call.args[2] = "A"

\* the URLs of the static table, as the source spells them
TopicUrl ==
    (Water :> "https://maps.wisa.bmluk.gv.at/emreg")
    @@ (Industry :> "https://industry.eea.europa.eu/explore/explore-data-map/map")
    @@ (Nature :> "https://natura2000.eea.europa.eu")

\* C15: for every text the classification call returns and for its failure, the links
\* are the empty list or one URL, the table entry of water, industry or nature; the
\* three topics have three different URLs.
C15_LinkClosure ==
    /\ relevant_links \in {<<>>} \cup {<<TopicUrl[t]>> : t \in {Water, Industry, Nature}}
    /\ Returned => result[1].relevant_links = relevant_links
    /\ classification = "failed" => relevant_links = <<>>
    /\ DOMAIN manager_links = {Water, Industry, Nature}
    /\ \A t \in DOMAIN manager_links : manager_links[t] = TopicUrl[t]
    /\ \A t1, t2 \in DOMAIN manager_links : t1 # t2 => manager_links[t1] # manager_links[t2]

\* a request that returned the link of the topic industry
C15_Witness ==
    /\ pc = "done"
    /\ result[1].relevant_links = <<"https://industry.eea.europa.eu/explore/explore-data-map/map">>

\* the classification call has returned a text and generate_answer has returned
Classified == pc = "done" /\ classification = "ok" /\ classification_content # <<>>

\* content is the word t in any letter case, with whitespace before and after it only
IsWordUpToCaseAndSpace(content, t) ==
    \E a \in 0..Len(content) :
        /\ a + Len(t) <= Len(content)
        /\ \A j \in 1..a : content[j] \in Whitespace
        /\ \A j \in 1..Len(t) : LowerChar(content[a + j]) = t[j]
        /\ \A j \in (a + Len(t) + 1)..Len(content) : content[j] \in Whitespace

\* C16 as stated: a model answer that is not exactly one of the lowercase words water,
\* industry, nature gives no link, also when it differs only in case or whitespace.
C16_OnlyExactWords ==
    (Classified /\ classification_content[1] \notin {Water, Industry, Nature})
        => relevant_links = <<>>

\* C16: a model answer gives the link of topic t exactly when it is the word t up to
\* letter case and surrounding whitespace; every other answer ("none", a word with
\* punctuation) gives no link.
C16_WordsUpToCaseAndSpace ==
    Classified =>
        LET content == classification_content[1]
        IN  /\ \A t \in {Water, Industry, Nature} :
                  IsWordUpToCaseAndSpace(content, t) => relevant_links = <<TopicUrl[t]>>
            /\ (\A t \in {Water, Industry, Nature} : ~IsWordUpToCaseAndSpace(content, t))
                  => relevant_links = <<>>

\* the answer " nature\n" gave the link of the topic nature
C16_Witness ==
    /\ Classified
    /\ classification_content[1] = <<" ", "n", "a", "t", "u", "r", "e", "\n">>
    /\ relevant_links = <<"https://natura2000.eea.europa.eu">>

\* C17: when the classification call fails after a successful synthesis, generate_answer
\* returns success with the synthesized answer, the ranked evidence and its sources,
\* and no link.
C17_ClassificationFailureHidden ==
    classification = "failed" =>
        /\ synthesis = "ok"
        /\ pc = "done"
        /\ Returned
        /\ result[1].success = TRUE
        /\ result[1].answer = "answer"
        /\ result[1].chunks = top_unique_chunks
        /\ result[1].expanded_queries = expanded_queries
        /\ Len(result[1].sources) = Len(top_unique_chunks)
        /\ \A i \in 1..Len(top_unique_chunks) :
              result[1].sources[i] = SourceOf(top_unique_chunks[i])
        /\ result[1].relevant_links = <<>>

\* a request with two ranked chunks whose classification call failed
C17_Witness ==
    /\ classification = "failed"
    /\ pc = "done"
    /\ Len(result[1].chunks) = 2
    /\ result[1].success

\* the stages of one request, in the order of the specification
StageOrder ==
    <<"expanding", "retrieving", "deduplicating", "ranking", "synthesizing",
      "classifying", "done">>

\* C18: every step that changes the stage moves to the next stage of the order or to
\* Failed; retrieval calls are issued by the step that ends the expansion call, the
\* synthesis call by the step that completes ranking, the classification call by the
\* step in which the synthesis call succeeds; nothing changes the stage or the result
\* after Done or Failed.
C18_StageOrder ==
    [][ /\ pc' # pc =>
              \/ \E i \in 1..(Len(StageOrder) - 1) : pc = StageOrder[i] /\ pc' = StageOrder[i + 1]
              \/ pc' = "failed" /\ pc \notin {"done", "failed"}
        /\ pc \in {"done", "failed"} => pc' = pc /\ result' = result /\ calls' = calls
        /\ calls'.retrieval # calls.retrieval =>
              /\ calls.retrieval = 0
              /\ pc = "expanding" /\ pc' = "retrieving"
              /\ expansion = "pending" /\ expansion' \in {"ok", "failed"}
        /\ calls'.synthesis # calls.synthesis =>
              /\ calls.synthesis = 0 /\ calls'.synthesis = 1
              /\ pc = "ranking" /\ pc' = "synthesizing"
              /\ top_unique_chunks' = RankChunks(unique_chunks, top_k)
        /\ calls'.classification # calls.classification =>
              /\ calls.classification = 0 /\ calls'.classification = 1
              /\ pc = "synthesizing" /\ pc' = "classifying"
              /\ synthesis' = "ok"
        /\ calls'.expansion = calls.expansion
      ]_vars

\* a request that went through every stage with three retrieval calls
C18_Witness ==
    /\ pc = "done"
    /\ calls = [expansion |-> 1, retrieval |-> 3, synthesis |-> 1, classification |-> 1]

\* C19: the queries searched are the original query followed by the expansions, of
\* which there are at most num_expansions = 4; one retrieval call is issued per query,
\* and at most 5 retrieval calls are in flight.
C19_QuerySet ==
    /\ Len(expanded_queries) <= 4
    /\ pc = "expanding" => search_tasks = <<>> /\ calls.retrieval = 0
    /\ pc # "expanding" =>
          /\ search_queries = <<query>> \o expanded_queries
          /\ search_queries[1] = query
          /\ Len(search_tasks) = Len(search_queries)
          /\ calls.retrieval = 1 + Len(expanded_queries)
    /\ Cardinality({i \in DOMAIN search_tasks : search_tasks[i].status = "pending"}) <= 5

\* a model output of five lines was cut to four expansions and five calls are in flight
C19_Witness ==
    /\ Len(expanded_queries) = 4
    /\ Cardinality({i \in DOMAIN search_tasks : search_tasks[i].status = "pending"}) = 5

\* C20: provided every awaited call eventually returns or fails, generate_answer
\* eventually is in Done or Failed and has returned a result.
C20_Terminates == <>(pc \in {"done", "failed"} /\ Returned)

\* a request that has returned after its expansion call and a retrieval call failed,
\* while other retrieval calls are still in flight
C20_Witness ==
    /\ Returned
    /\ pc = "failed"
    /\ expansion = "failed"
    /\ e = "retrieval"

\* the result lists of the search tasks, one after the other in query order
QueryOrderPool ==
    [n \in 1..Offset(Len(search_tasks) + 1) |->
        LET i == CHOOSE i \in DOMAIN search_tasks :
                     Offset(i) < n /\ n <= Offset(i) + Len(search_tasks[i].chunks)
        IN  search_tasks[i].chunks[n - Offset(i)]]

\* C21: whatever the order in which the retrieval calls completed, the merged pool is
\* the concatenation of their result lists in query order, and the deduplicated pool,
\* the ranked evidence, the sources and the link are functions of these lists, of
\* top_k and of the classification reply alone.
C21_CompletionOrderIrrelevant ==
    LET pool == QueryOrderPool
        ranked == RankChunks(Dedup(pool), top_k)
    IN  /\ pc = "deduplicating" => all_chunks = pool
        /\ Deduped => unique_chunks = Dedup(pool)
        /\ Ranked => top_unique_chunks = ranked
        /\ pc = "done" =>
              /\ result[1].chunks = ranked
              /\ result[1].sources =
                    [i \in 1..Len(result[1].chunks) |-> SourceOf(result[1].chunks[i])]
              /\ result[1].relevant_links =
                    IF classification_content = <<>> THEN <<>>
                    ELSE get_relevant_links(classify_query_intent(classification_content[1]))

\* a request that returned two chunks after a later retrieval call had completed before
\* an earlier one
C21_Witness ==
    /\ pc = "done"
    /\ out_of_order
    /\ Len(result[1].chunks) >= 2
    /\ result[1].chunks[1] # result[1].chunks[2]

\* the first position of chunk c in pool
FirstPos(pool, c) ==
    CHOOSE n \in 1..Len(pool) : pool[n] = c /\ \A m \in 1..(n - 1) : pool[m] # c

\* of the chunks of pool with the text and the score of u, u is the earliest
EarliestOfItsTextAndScore(pool, u) ==
    \A n \in 1..Len(pool) :
        (pool[n].text = u.text /\ pool[n].score = u.score) => FirstPos(pool, u) <= n

\* C22 as stated: any two chunks of equal score are, in the ranked output, in the order
\* they had in the merged pool.
C22_StableAcrossOutput ==
    Ranked =>
        LET pool == QueryOrderPool
        IN  \A i, j \in 1..Len(top_unique_chunks) :
                (i < j /\ top_unique_chunks[i].score = top_unique_chunks[j].score)
                    => FirstPos(pool, top_unique_chunks[i]) < FirstPos(pool, top_unique_chunks[j])

\* C22: chunks of equal score keep their pool order in the deduplicated list, and in
\* the ranked output when both are primary or both are other chunks; of the chunks
\* with one text and one score the earliest of the pool is retained.
C22_StableWithinGroup ==
    LET pool == QueryOrderPool
    IN  /\ Deduped =>
              /\ \A i, j \in 1..Len(unique_chunks) :
                    (i < j /\ unique_chunks[i].score = unique_chunks[j].score)
                        => FirstPos(pool, unique_chunks[i]) < FirstPos(pool, unique_chunks[j])
              /\ \A i \in 1..Len(unique_chunks) :
                    EarliestOfItsTextAndScore(pool, unique_chunks[i])
        /\ Ranked =>
              /\ \A i, j \in 1..Len(top_unique_chunks) :
                    (/\ i < j
                     /\ top_unique_chunks[i].score = top_unique_chunks[j].score
                     /\ is_vsme(top_unique_chunks[i]) = is_vsme(top_unique_chunks[j]))
                        => FirstPos(pool, top_unique_chunks[i])
                              < FirstPos(pool, top_unique_chunks[j])
              /\ \A i \in 1..Len(top_unique_chunks) :
                    EarliestOfItsTextAndScore(pool, top_unique_chunks[i])

\* two other chunks of equal score were ranked in pool order, the first of them retained
\* over a later chunk of the same text and score
C22_Witness ==
    /\ Ranked
    /\ Len(top_unique_chunks) = 2
    /\ top_unique_chunks[1].score = top_unique_chunks[2].score
    /\ ~is_vsme(top_unique_chunks[1]) /\ ~is_vsme(top_unique_chunks[2])
    /\ \E n \in 1..Len(QueryOrderPool) :
          /\ QueryOrderPool[n].text = top_unique_chunks[1].text
          /\ QueryOrderPool[n].score = top_unique_chunks[1].score
          /\ QueryOrderPool[n] # top_unique_chunks[1]

\* the texts of the chunks of the merged pool
PoolTexts == {QueryOrderPool[n].text : n \in 1..Len(QueryOrderPool)}

\* C23: no two chunks of the evidence of a successful result have the same text, also
\* when several queries returned the same passage; 4 retrieved chunks with 2 duplicates
\* by text and top_k = 3 give at most 3 chunks of pairwise distinct texts.
C23_EvidenceDuplicateFree ==
    (Returned /\ result[1].success) =>
        LET chunks == result[1].chunks
        IN  /\ \A i, j \in 1..Len(chunks) : i # j => chunks[i].text # chunks[j].text
            /\ \A i \in 1..Len(chunks) : chunks[i].text \in PoolTexts
            /\ (top_k = 3 /\ Len(QueryOrderPool) = 4 /\ Cardinality(PoolTexts) = 2)
                  => Len(chunks) <= 3

\* two queries returned the same two passages; with top_k = 3 the evidence has each once
C23_Witness ==
    /\ Returned /\ result[1].success
    /\ top_k = 3
    /\ Len(search_tasks) >= 2
    /\ Len(QueryOrderPool) = 4
    /\ Cardinality(PoolTexts) = 2
    /\ Len(result[1].chunks) = 2

\* C24: a request issues exactly one expansion call, one retrieval call per searched
\* query, at most one synthesis call and at most one classification call; after a
\* failed synthesis call it issues no classification call.
C24_NoRetry ==
    /\ calls.expansion = 1
    /\ calls.retrieval = Len(search_queries)
    /\ calls.retrieval = Len(search_tasks)
    /\ calls.synthesis = (IF synthesis = "idle" THEN 0 ELSE 1)
    /\ calls.classification = (IF classification = "idle" THEN 0 ELSE 1)
    /\ calls.classification <= calls.synthesis
    /\ synthesis = "failed" => calls.classification = 0 /\ classification = "idle"
    /\ synthesis \in {"pending", "failed"} => classification = "idle"

\* a request with five retrieval calls whose synthesis call failed: no classification call
C24_Witness ==
    /\ pc = "failed"
    /\ synthesis = "failed"
    /\ calls = [expansion |-> 1, retrieval |-> 5, synthesis |-> 1, classification |-> 0]

\* C25: no call of an OnaceManager method and no edit of the mapping returned by
\* get_all_categories changes the catalog: its codes stay "0", "A" .. "U", the methods
\* keep answering from them, and the documents returned are the documents handed in.
C25_CatalogReadOnly ==
    /\ ONACE_CATEGORIES =
          {"0", "A", "B", "C", "D", "E", "F", "G", "H", "I", "J", "K", "L", "M", "N",
           "O", "P", "Q", "R", "S", "T", "U"}
    /\ get_category("A") = <<"A">> /\ get_category("Z") = <<>>
    /\ parse_onace_codes(<<"A">>) = {"A"} /\ parse_onace_codes(<<"Z">>) = {"0"}
    /\ get_category_names({"A", "Z"}) = {"A"}
    /\ onace_call.op = "get_all_categories" => ~onace_call.ret.alias
    /\ onace_call.op = "get_relevant_documents" =>
          \A i \in 1..Len(onace_call.ret) :
              \E j \in 1..Len(onace_call.args[1]) : onace_call.ret[i] = onace_call.args[1][j]

\* the caller has deleted "A" from, and added "Z" to, the mapping it was handed
C25_Witness ==
    /\ onace_call.op = "get_all_categories"
    /\ "A" \notin onace_call.ret.keys
    /\ "Z" \in onace_call.ret.keys
    /\ "A" \in ONACE_CATEGORIES

\* the number of digits line begins with
RECURSIVE LeadingDigits(_)
LeadingDigits(line) ==
    IF line # <<>> /\ Head(line) \in Digits THEN 1 + LeadingDigits(Tail(line)) ELSE 0

\* a trimmed line without its list number "1." or "2)" and without the pair of quotes
\* around it
LineWithoutNumberAndQuotes(line) ==
    LET d == LeadingDigits(line)
        u == IF d >= 1 /\ Len(line) > d /\ line[d + 1] \in {".", ")"}
             THEN strip(SubSeq(line, d + 2, Len(line)))
             ELSE line
    IN  IF Len(u) >= 2 /\ u[1] = u[Len(u)] /\ u[1] \in {"\"", "'"}
        THEN SubSeq(u, 2, Len(u) - 1)
        ELSE u

\* the lines of the model output that are not empty after trimming, trimmed
NonEmptyLines(content) ==
    LET lines == split(content, "\n")
    IN  SelectSeq([i \in 1..Len(lines) |-> strip(lines[i])], LAMBDA l : l # <<>>)

\* C26: expand_query returns, for the first num_expansions lines of the model output
\* that are not empty after trimming, the line without its list number ("1. " or
\* "2) ") and without the quotes around it.
C26_LineParsing ==
    expansion = "ok" =>
        LET lines == NonEmptyLines(expansion_content[1])
        IN  /\ Len(expanded_queries) = Min(Len(lines), 4)
            /\ \A i \in 1..Len(expanded_queries) :
                  expanded_queries[i] = LineWithoutNumberAndQuotes(lines[i])

\* C30: no element of the result of expand_query is the empty string, so no retrieval
\* call has an empty expanded query.
C30_NoEmptyQuery ==
    /\ \A i \in 1..Len(expanded_queries) : expanded_queries[i] # <<>>
    /\ \A i \in 2..Len(search_queries) : search_queries[i] # <<>>

\* C27: with top_k >= 1 and a non-empty deduplicated pool the ranked evidence is not
\* empty, whatever the split of the pool between primary and other chunks.
C27_EvidenceNonEmpty ==
    (Ranked /\ top_k >= 1 /\ unique_chunks # <<>>) => top_unique_chunks # <<>>

\* the filename of a chunk, if its metadata has one
HasFilename(chunk) == chunk.metadata # <<>> /\ chunk.metadata[1].filename # <<>>

\* C28: when no retrieval call and no synthesis call fails, generate_answer returns
\* success, and a chunk without metadata or without filename is reported with the
\* source "Unknown source" in the context and in the sources.
C28_MissingMetadataTolerated ==
    (Returned /\ e \notin {"retrieval", "synthesis"}) =>
        /\ result[1].success
        /\ Len(context) = Len(top_unique_chunks)
        /\ \A i \in 1..Len(top_unique_chunks) :
              ~HasFilename(top_unique_chunks[i]) =>
                  /\ result[1].sources[i] = "Unknown source"
                  /\ context[i].source = "Unknown source"

\* C29: in every returned result sources[i] is the filename of chunks[i] or "Unknown
\* source"; a successful result returns the ranked evidence, which is the evidence
\* whose context went to synthesis, and a failure result returns neither.
C29_SourcesAligned ==
    Returned =>
        LET chunks == result[1].chunks
            sources == result[1].sources
        IN  /\ Len(sources) = Len(chunks)
            /\ \A i \in 1..Len(chunks) :
                  sources[i] = IF HasFilename(chunks[i])
                               THEN chunks[i].metadata[1].filename[1]
                               ELSE "Unknown source"
            /\ result[1].success =>
                  /\ chunks = top_unique_chunks
                  /\ Len(context) = Len(chunks)
                  /\ \A i \in 1..Len(chunks) :
                        /\ context[i].chunk = i
                        /\ context[i].text = chunks[i].text
                        /\ context[i].source = sources[i]
            /\ ~result[1].success => chunks = <<>> /\ sources = <<>>

\* a result of two chunks, the first with a filename and the second without one
C29_Witness ==
    /\ Returned /\ result[1].success
    /\ Len(unique_chunks) > 2
    /\ result[1].sources = <<"vsme.pdf", "Unknown source">>
====
